---- MODULE Spec2Model ----
(***************************************************************************)
(* torchdcemri: the arterial input function (AIF.py) and the tracer-kinetic *)
(* models built on it (tissue_models.py).                                   *)
(*                                                                          *)
(* Numbers are fixed point.  Time is counted in quarter seconds, so the     *)
(* 1.75 s spacing of the population curve is 7 ticks; AIF samples are       *)
(* counted in 1e-4 concentration units.  Kep is kept in units of           *)
(* 1/KepScale, exp(-x) in units of 1/ExpScale, and a concentration matrix   *)
(* in units of 1/(2*ExpScale) of (sample unit * parameter unit), which      *)
(* keeps the factor 1/2 of the trapezoidal rule exact.                      *)
(***************************************************************************)
EXTENDS Integers, Sequences, FiniteSets, TLC

VARIABLES
    self_AIF,   \* self.AIF of the InterpolatedAIF object
    self_t,     \* self.t of the InterpolatedAIF object
    fit_call,   \* the fit under way: its arguments and the line it is at
    t,          \* the caller's time grid, the tensor passed to the models
    ret         \* the value last returned to the caller

vars == <<self_AIF, self_t, fit_call, t, ret>>

(* ------------------------------ bounds -------------------------------- *)

\* longest time grid and longest fitted AIF
MaxLen == 2

\* largest time stamp (ticks) of a fresh grid or of a fitted AIF
MaxTime == 2

\* sample values a caller fits an AIF with
SampleValues == {0, 2}

\* largest bolus onset (ticks) a caller passes
MaxOnset == 1

OnsetValues == 0..MaxOnset

\* the lowest time a shifted grid may reach before the caller stops reusing it
MinTime == 0 - MaxOnset

StrictlyIncreasing(s) == \A i \in 1..(Len(s) - 1) : s[i] < s[i + 1]

SeqsUpTo(S, n) == UNION {[1..k -> S] : k \in 1..n}

\* time grids and AIF timestamps a caller builds
Grids == {s \in SeqsUpTo(0..MaxTime, MaxLen) : StrictlyIncreasing(s)}

SampleSeqs == SeqsUpTo(SampleValues, MaxLen)

(* ------------------------------ AIF.py -------------------------------- *)

\* AIF_pop, in 1e-4 units
AIF_pop ==
    << 0, 908, 1787, 5667, 19445, 46015, 65225, 87509, 69091, 60901, 46583, 35056,
       28350, 23160, 19862, 18966, 18934, 20551, 21454, 21860, 21717, 21783, 20682, 19374,
       18774, 18100, 17271, 16808, 16205, 16182, 15581, 15831, 15469, 15513, 15469, 15393,
       15398, 15243, 15588, 15137, 14882, 15302, 14465, 14588, 14582, 14741, 14251, 14850,
       14249, 14075, 14414, 14190, 13938, 14047, 13961, 13857, 13794, 13691, 13585, 13784,
       13299, 13100, 13231, 13130, 13053, 13129, 12640, 13032, 12721, 12649, 12426, 12345,
       12416, 12340, 12172, 12128, 12374, 12213, 12012, 11947, 11851, 11543, 11841, 11892,
       11636, 11522, 12028, 11482, 11751, 11605, 11531, 11628, 11232, 11255, 11227, 11362,
       11002, 11486, 11178, 10933, 11085, 10972, 10982, 10860, 11026, 10679, 10670, 10870,
       10640, 10839, 10671, 10452, 10639, 10490, 10358, 10360, 10378, 10258, 10371, 10287,
       10300, 10171, 10195, 10044, 10052, 10154, 10510, 10066, 10161, 9986, 9653, 9922,
       9914, 9749, 9934, 9621, 9733, 9894, 9900, 9754, 9240, 9347, 8556, 7921,
       7380, 6348 >>

\* 1.75 s, in ticks
Spacing == 7

\* np.arange(n) * 1.75
arange_mut(n) == [i \in 1..n |-> i * Spacing]

arange(n) == [i \in 1..n |-> (i - 1) * Spacing]

_default_population_based_AIF == <<AIF_pop, arange(Len(AIF_pop))>>

\* np.interp at one point x over the knots (xp, fp) of equal length
interp(x, xp, fp) ==
    LET n == Len(xp) IN
    IF x < xp[1] THEN fp[1]
    ELSE IF x >= xp[n] THEN fp[n]
    ELSE LET j == CHOOSE k \in 1..(n - 1) : xp[k] <= x /\ x < xp[k + 1] IN
         IF x = xp[j] THEN fp[j]
         ELSE fp[j] + ((fp[j + 1] - fp[j]) * (x - xp[j])) \div (xp[j + 1] - xp[j])

\* InterpolatedAIF.sample: np.interp raises ValueError on arrays of different
\* length and on empty arrays
sample(x, xp, fp) ==
    IF Len(xp) = 0 \/ Len(fp) # Len(xp)
    THEN [err |-> TRUE, val |-> <<>>]
    ELSE [err |-> FALSE, val |-> [i \in 1..Len(x) |-> interp(x[i], xp, fp)]]

NoRet == [op |-> "none"]

NoFit == [pc |-> "idle", AIF |-> <<>>, t |-> <<>>, replaced |-> FALSE]

\* AIF = InterpolatedAIF(): a fresh object
ConstructDefault ==
    /\ ret = NoRet
    /\ fit_call.pc = "idle"
    /\ self_AIF' = _default_population_based_AIF[1]
    /\ self_t' = _default_population_based_AIF[2]
    /\ ret' = [op |-> "init_default"]
    /\ UNCHANGED <<fit_call, t>>

\* AIF = InterpolatedAIF(a, ts): a fresh object, not yet shared, runs self.fit
Construct(a, ts) ==
    /\ ret = NoRet
    /\ fit_call.pc = "idle"
    /\ self_AIF' = a
    /\ self_t' = ts
    /\ ret' = [op |-> "init", AIF |-> a, t |-> ts]
    /\ UNCHANGED <<fit_call, t>>

\* fit, line 32: self.AIF = AIF
FitStoreAIF(a, ts) ==
    /\ ret = NoRet
    /\ fit_call.pc = "idle"
    /\ self_AIF' = a
    /\ fit_call' = [pc |-> "L33", AIF |-> a, t |-> ts, replaced |-> (a # self_AIF)]
    /\ UNCHANGED <<self_t, t, ret>>

FitStoreT_mut ==
    /\ fit_call.pc = "L33"
    /\ fit_call' = NoFit
    /\ ret' = [op |-> "fit", AIF |-> fit_call.AIF, t |-> fit_call.t]
    /\ UNCHANGED <<self_AIF, self_t, t>>

\* fit, line 33: self.t = t, and return
FitStoreT ==
    /\ fit_call.pc = "L33"
    /\ self_t' = fit_call.t
    /\ fit_call' = NoFit
    /\ ret' = [op |-> "fit", AIF |-> fit_call.AIF, t |-> fit_call.t]
    /\ UNCHANGED <<self_AIF, t>>

\* AIF.sample(t) from the caller's thread, at any point of a fit
Sample ==
    /\ ret = NoRet
    /\ ret' = [op |-> "sample", x |-> t, fp |-> self_AIF, xp |-> self_t,
               out |-> sample(t, self_t, self_AIF)]
    /\ UNCHANGED <<self_AIF, self_t, fit_call, t>>

\* the caller is done with the value returned
Drop ==
    /\ ret # NoRet
    /\ ret' = NoRet
    /\ UNCHANGED <<self_AIF, self_t, fit_call, t>>

(* ------------------------- tissue_models.py --------------------------- *)

VoxelIds == {1, 2}

KtValues == {0, 1}

VeValues == {0, 1, 2}

VpValues == {0, 1}

\* Kep=None
None == <<>>

\* an explicit Kep, in units of 1/KepScale, the same for every voxel
KepValues == {0, 1}

\* Kep is kept in halves
KepScale == 2

\* exp(-x) is kept in thousandths
ExpScale == 1000

\* round(ExpScale * exp(-h / KepScale)) for h = 0, 1, 2, ...
ExpTable == <<1000, 607, 368, 223, 135, 82, 50, 30, 18, 11, 7, 4, 2, 2, 1, 1>>

\* torch.exp(-x) for x = h / KepScale >= 0; underflows to 0
exp_neg_mut(h) == IF h + 2 <= Len(ExpTable) THEN ExpTable[h + 2] ELSE 0

exp_neg(h) == IF h + 1 <= Len(ExpTable) THEN ExpTable[h + 1] ELSE 0

\* t -= t_onset: the tensor the caller passed, shifted in place
isub(tt, t_onset) == [i \in 1..Len(tt) |-> tt[i] - t_onset]

\* F.pad(s, (1, 0), value=0)
pad(s) == <<0>> \o s

\* twice the trapezoidal integral of y over x up to point n + 1
RECURSIVE trap2(_, _, _)
trap2(y, x, n) ==
    IF n <= 0 THEN 0
    ELSE trap2(y, x, n - 1) + (y[n] + y[n + 1]) * (x[n + 1] - x[n])

RECURSIVE rect2(_, _, _)
rect2(y, x, n) ==
    IF n <= 0 THEN 0
    ELSE rect2(y, x, n - 1) + 2 * y[n + 1] * (x[n + 1] - x[n])

cumulative_trapezoid_mut(y, x) == [n \in 1..(Len(y) - 1) |-> rect2(y, x, n)]

\* torch.cumulative_trapezoid(y, x), doubled: one entry less than y
cumulative_trapezoid(y, x) == [n \in 1..(Len(y) - 1) |-> trap2(y, x, n)]

\* torch.trapz(y, x), doubled
trapz(y, x) == trap2(y, x, Len(y) - 1)

\* torch.outer(a, b)
outer(a, b) == [n \in 1..Len(a) |-> [m \in DOMAIN b |-> a[n] * b[m]]]

\* patlak, in units of 1/(2*ExpScale); the result carries the grid as the
\* call leaves it
patlak(tt, xp, fp, Kt, Vp, t_onset) ==
    LET t1 == isub(tt, t_onset)
        s == sample(t1, xp, fp)
    IN  IF s.err THEN [err |-> TRUE, t |-> t1, Cp |-> <<>>, Ct |-> <<>>]
        ELSE LET Cp == s.val
                 Ct == cumulative_trapezoid(pad(Cp), pad(t1))
                 a == outer(Cp, Vp)
                 b == outer(Ct, Kt)
             IN  [err |-> FALSE, t |-> t1, Cp |-> Cp,
                  Ct |-> [n \in 1..Len(t1) |-> [m \in VoxelIds |->
                             2 * ExpScale * a[n][m] + ExpScale * b[n][m]]]]

resolve_Kep_mut(Kt, Ve, Kep) ==
    IF Kep = None
    THEN [m \in DOMAIN Kt |->
            IF Ve[m] # 0 THEN (KepScale * Kt[m]) \div Ve[m] ELSE KepScale * Kt[m]]
    ELSE Kep

\* tofts, lines 36-38
resolve_Kep(Kt, Ve, Kep) ==
    IF Kep = None
    THEN [m \in DOMAIN Kt |->
            IF Ve[m] # 0 THEN (KepScale * Kt[m]) \div Ve[m] ELSE 0]
    ELSE Kep

\* integ = Cp[:k+1] * exp(-outer(Kep, t[k] - t[:k+1])), row m
integ(t1, Cp, Kep, k, m) ==
    [i \in 1..k |-> Cp[i] * exp_neg(Kep[m] * (t1[k] - t1[i]))]

tofts_Ct_mut(t1, Cp, Kep) ==
    [k \in 1..Len(t1) |-> [m \in DOMAIN Kep |->
        trapz(integ(t1, Cp, Kep, k, m), SubSeq(t1, 1, k))]]

\* tofts, lines 33 and 40-44: Ct in units of 1/(2*ExpScale)
tofts_Ct(t1, Cp, Kep) ==
    [k \in 1..Len(t1) |-> [m \in DOMAIN Kep |->
        IF t1[k] <= 0 THEN 0
        ELSE trapz(integ(t1, Cp, Kep, k, m), SubSeq(t1, 1, k))]]

tofts_return_mut(Cp, Kt, Vp, Ct, extended) ==
    [k \in 1..Len(Cp) |-> [m \in DOMAIN Kt |->
        IF extended
        THEN 2 * ExpScale * outer(Cp, Kt)[k][m] + Kt[m] * Ct[k][m]
        ELSE Kt[m] * Ct[k][m]]]

\* tofts, lines 45-47
tofts_return(Cp, Kt, Vp, Ct, extended) ==
    [k \in 1..Len(Cp) |-> [m \in DOMAIN Kt |->
        IF extended
        THEN 2 * ExpScale * outer(Cp, Vp)[k][m] + Kt[m] * Ct[k][m]
        ELSE Kt[m] * Ct[k][m]]]

\* tofts; the result carries the tensors the caller passed as the call
\* leaves them
tofts(tt, xp, fp, Kt, Ve, Vp, t_onset, Kep, extended) ==
    LET t1 == isub(tt, t_onset)
        s == sample(t1, xp, fp)
    IN  IF s.err
        THEN [err |-> TRUE, t |-> t1, Kt |-> Kt, Ve |-> Ve, Cp |-> <<>>,
              Kep |-> <<>>, Ct |-> <<>>]
        ELSE LET Cp == s.val
                 Kep1 == resolve_Kep(Kt, Ve, Kep)
                 Ct == tofts_Ct(t1, Cp, Kep1)
             IN  [err |-> FALSE, t |-> t1, Kt |-> Kt, Ve |-> Ve, Cp |-> Cp,
                  Kep |-> Kep1, Ct |-> tofts_return(Cp, Kt, Vp, Ct, extended)]

extended_tofts(tt, xp, fp, Kt, Ve, Vp, t_onset, Kep) ==
    tofts(tt, xp, fp, Kt, Ve, Vp, t_onset, Kep, TRUE)

KepArgs == {None} \cup {[m \in VoxelIds |-> k] : k \in KepValues}

\* Ct = patlak(t, AIF, Kt, Vp, t_onset) on the caller's grid.  The kinetic
\* models run on a fitted AIF (no fit under way), and the caller reuses its
\* grid only while the shifted grid stays at or above MinTime.
Patlak(Kt, Vp, t_onset) ==
    /\ ret = NoRet
    /\ fit_call.pc = "idle"
    /\ t[1] - t_onset >= MinTime
    /\ LET r == patlak(t, self_t, self_AIF, Kt, Vp, t_onset) IN
        /\ t' = r.t
        /\ ret' = [op |-> "patlak", t_in |-> t, t_onset |-> t_onset, Kt |-> Kt,
                   Vp |-> Vp, out |-> r]
    /\ UNCHANGED <<self_AIF, self_t, fit_call>>

\* Ct = tofts(t, AIF, Kt, Ve, Vp, t_onset, Kep)
Tofts(Kt, Ve, Vp, t_onset, Kep) ==
    /\ ret = NoRet
    /\ fit_call.pc = "idle"
    /\ t[1] - t_onset >= MinTime
    /\ LET r == tofts(t, self_t, self_AIF, Kt, Ve, Vp, t_onset, Kep, FALSE) IN
        /\ t' = r.t
        /\ ret' = [op |-> "tofts", t_in |-> t, t_onset |-> t_onset, Kt |-> Kt,
                   Ve |-> Ve, Vp |-> Vp, Kep |-> Kep, out |-> r]
    /\ UNCHANGED <<self_AIF, self_t, fit_call>>

\* Ct = extended_tofts(t, AIF, Kt, Ve, Vp, t_onset, Kep)
ExtendedTofts(Kt, Ve, Vp, t_onset, Kep) ==
    /\ ret = NoRet
    /\ fit_call.pc = "idle"
    /\ t[1] - t_onset >= MinTime
    /\ LET r == extended_tofts(t, self_t, self_AIF, Kt, Ve, Vp, t_onset, Kep) IN
        /\ t' = r.t
        /\ ret' = [op |-> "extended_tofts", t_in |-> t, t_onset |-> t_onset,
                   Kt |-> Kt, Ve |-> Ve, Vp |-> Vp, Kep |-> Kep, out |-> r]
    /\ UNCHANGED <<self_AIF, self_t, fit_call>>

(* --------------------------- specifications --------------------------- *)

Init ==
    /\ self_AIF = _default_population_based_AIF[1]
    /\ self_t = _default_population_based_AIF[2]
    /\ fit_call = NoFit
    /\ t \in Grids
    /\ ret = NoRet

Next ==
    \/ ConstructDefault
    \/ \E a \in SampleSeqs, ts \in Grids : Construct(a, ts)
    \/ \E a \in SampleSeqs, ts \in Grids : FitStoreAIF(a, ts)
    \/ FitStoreT
    \/ Sample
    \/ Drop

Spec == Init /\ [][Next]_vars

\* AIFs the kinetic models are run on: the population curve and three
\* fitted curves (rising from zero, flat, falling from a late first knot)
KineticAIFs ==
    { _default_population_based_AIF,
      << <<0, 4>>, <<0, 2>> >>,
      << <<2, 2>>, <<0, 1>> >>,
      << <<4, 2>>, <<1, 2>> >> }

InitKinetic ==
    /\ \E a \in KineticAIFs : self_AIF = a[1] /\ self_t = a[2]
    /\ fit_call = NoFit
    /\ t \in Grids
    /\ ret = NoRet

NextKinetic ==
    \/ \E Kt \in [VoxelIds -> KtValues], Vp \in [VoxelIds -> VpValues],
          o \in OnsetValues : Patlak(Kt, Vp, o)
    \/ \E Kt \in [VoxelIds -> KtValues], Ve \in [VoxelIds -> VeValues],
          Vp \in [VoxelIds -> VpValues], o \in OnsetValues, Kep \in KepArgs :
            Tofts(Kt, Ve, Vp, o, Kep)
    \/ \E Kt \in [VoxelIds -> KtValues], Ve \in [VoxelIds -> VeValues],
          Vp \in [VoxelIds -> VpValues], o \in OnsetValues, Kep \in KepArgs :
            ExtendedTofts(Kt, Ve, Vp, o, Kep)
    \/ Drop

SpecKinetic == InitKinetic /\ [][NextKinetic]_vars

(* ------------------------------ claims -------------------------------- *)

IsTofts == ret.op \in {"tofts", "extended_tofts"}

IsKinetic == ret.op \in {"patlak", "tofts", "extended_tofts"}

\* t' of a returned kinetic call: the grid on entry less the onset
Shifted == [k \in 1..Len(ret.t_in) |-> ret.t_in[k] - ret.t_onset]

\* Cp of a returned kinetic call, read off the AIF point by point
CpAt(k) == interp(Shifted[k], self_t, self_AIF)

Zeros == [m \in VoxelIds |-> 0]

\* C1 (as claimed): once patlak, tofts or extended_tofts has returned, the
\* caller's time grid holds the values it held before the call.
C1_CallerGridUnchanged == IsKinetic => t = ret.t_in

\* C2 (as claimed): every entry of a tofts or extended_tofts result at an
\* index k with t[k] - t_onset <= 0 is 0, for every voxel.
C2_ToftsCausality ==
    IsTofts =>
        \A k \in 1..Len(ret.t_in), m \in VoxelIds :
            Shifted[k] <= 0 => ret.out.Ct[k][m] = 0

\* C2 (amended): at an index k with t[k] - t_onset <= 0 the tofts result is 0
\* for every voxel, and the extended_tofts result is the vascular term
\* Cp[k] * Vp[m] alone, Cp[k] being the clamped AIF sample at t[k] - t_onset.
C2_ToftsCausalityAmended ==
    IsTofts =>
        \A k \in 1..Len(ret.t_in), m \in VoxelIds :
            Shifted[k] <= 0 =>
                ret.out.Ct[k][m] =
                    IF ret.op = "tofts" THEN 0
                    ELSE 2 * ExpScale * CpAt(k) * ret.Vp[m]

\* C2 witness: extended_tofts returned a non-zero entry at or before the onset.
C2_Witness ==
    /\ ret.op = "extended_tofts"
    /\ \E k \in 1..Len(ret.t_in), m \in VoxelIds :
         /\ Shifted[k] <= 0
         /\ k >= 2
         /\ ret.out.Ct[k][m] # 0

PatlakKinetic ==
    patlak(ret.t_in, self_t, self_AIF, ret.Kt, Zeros, ret.t_onset).Ct

\* C5 (as claimed): with Kep passed as zeros, the tofts result equals Patlak's
\* kinetic term at every index and voxel.
C5_KepZeroDegeneracy ==
    (ret.op = "tofts" /\ ret.Kep = Zeros) =>
        \A k \in 1..Len(ret.t_in), m \in VoxelIds :
            ret.out.Ct[k][m] = PatlakKinetic[k][m]

\* C5 (amended): with Kep passed as zeros, the tofts result is 0 at an index
\* with t'[k] <= 0 and Kt[m] times the trapezoidal integral of Cp over
\* t'[0..k] at an index with t'[k] > 0; there it is Patlak's kinetic term less
\* Kt[m] * Cp[0] * t'[0] / 2, the trapezoid patlak adds from its padded origin.
C5_KepZeroAmended ==
    (ret.op = "tofts" /\ ret.Kep = Zeros) =>
        \A k \in 1..Len(ret.t_in), m \in VoxelIds :
            IF Shifted[k] > 0
            THEN /\ ret.out.Ct[k][m] =
                      ret.Kt[m] * ExpScale
                        * trapz([i \in 1..k |-> CpAt(i)], SubSeq(Shifted, 1, k))
                 /\ ret.out.Ct[k][m] =
                      PatlakKinetic[k][m]
                        - ExpScale * ret.Kt[m] * CpAt(1) * Shifted[1]
            ELSE ret.out.Ct[k][m] = 0

\* C5 witness: a tofts call with Kep zeros returned a non-zero entry that is
\* not Patlak's kinetic term.
C5_Witness ==
    /\ ret.op = "tofts"
    /\ ret.Kep = Zeros
    /\ \E k \in 1..Len(ret.t_in), m \in VoxelIds :
         /\ Shifted[k] > 0
         /\ ret.out.Ct[k][m] # 0
         /\ ret.out.Ct[k][m] # PatlakKinetic[k][m]

\* C9: without a Kep, tofts resolves Kep[m] = Kt[m] / Ve[m] where Ve[m] # 0
\* and Kep[m] = 0 where Ve[m] = 0, raises nothing, and leaves the caller's Kt
\* and Ve as they were.
C9_KepResolution ==
    (IsTofts /\ ret.Kep = None) =>
        /\ ~ret.out.err
        /\ ret.out.Kt = ret.Kt
        /\ ret.out.Ve = ret.Ve
        /\ \A m \in VoxelIds :
             IF ret.Ve[m] # 0
             THEN ret.out.Kep[m] * ret.Ve[m] = KepScale * ret.Kt[m]
             ELSE ret.out.Kep[m] = 0

\* C9 witness: a call without Kep on a batch with a voxel of Ve = 0 and
\* Kt # 0 and a voxel of Ve # 0 and Kt # 0.
C9_Witness ==
    /\ IsTofts
    /\ ret.Kep = None
    /\ \E m \in VoxelIds : ret.Ve[m] = 0 /\ ret.Kt[m] # 0
    /\ \E m \in VoxelIds : ret.Ve[m] # 0 /\ ret.out.Kep[m] # 0

\* C10 (as claimed): patlak's cumulative integral is 0 at the first grid
\* point, so row 0 of the result is Cp[0] * Vp[m].
C10_PatlakLeadingZero ==
    ret.op = "patlak" =>
        \A m \in VoxelIds : ret.out.Ct[1][m] = 2 * ExpScale * CpAt(1) * ret.Vp[m]

\* C10 (amended): patlak's cumulative integral is Cp[0] * t'[0] / 2 at the
\* first grid point, the trapezoid from the padded point (0, 0), and grows by
\* one trapezoid per grid step; Ct[n, m] = Cp[n] * Vp[m] + CumInt[n] * Kt[m].
C10_PatlakCumInt ==
    ret.op = "patlak" =>
        \A m \in VoxelIds :
            /\ ret.out.Ct[1][m] =
                 2 * ExpScale * CpAt(1) * ret.Vp[m]
                   + ExpScale * CpAt(1) * Shifted[1] * ret.Kt[m]
            /\ \A n \in 2..Len(ret.t_in) :
                 ret.out.Ct[n][m] - ret.out.Ct[n - 1][m] =
                   2 * ExpScale * (CpAt(n) - CpAt(n - 1)) * ret.Vp[m]
                     + ExpScale * (CpAt(n) + CpAt(n - 1))
                         * (Shifted[n] - Shifted[n - 1]) * ret.Kt[m]

\* C10 witness: a patlak call on a grid of two or more points whose integral
\* at the first grid point is not 0.
C10_Witness ==
    /\ ret.op = "patlak"
    /\ Len(ret.t_in) >= 2
    /\ \E m \in VoxelIds : CpAt(1) * Shifted[1] * ret.Kt[m] # 0

\* C3 (as claimed): in any state reached by construction or by fit, sample
\* returns samples[0] below timestamps[0], samples[-1] above timestamps[-1],
\* and samples[i] at timestamps[i].
C3_ClampedInterpolation ==
    [][(ret.op = "none" /\ ret'.op = "sample" /\ fit_call.pc = "idle") =>
         /\ ~ret'.out.err
         /\ \A i \in 1..Len(t) :
              /\ t[i] < self_t[1] => ret'.out.val[i] = self_AIF[1]
              /\ t[i] > self_t[Len(self_t)] =>
                   ret'.out.val[i] = self_AIF[Len(self_AIF)]
              /\ \A j \in 1..Len(self_t) :
                   t[i] = self_t[j] => ret'.out.val[i] = self_AIF[j]]_vars

\* C6 (as claimed): whenever no fit is under way, the AIF holds as many
\* samples as timestamps: a fit with sequences of different lengths is refused.
C6_LengthsAgree ==
    fit_call.pc = "idle" => Len(self_AIF) = Len(self_t)

\* C7 (as claimed): a sample that runs after a fit has replaced the samples
\* sees the timestamps of that fit too.
C7_FitAtomic ==
    (ret.op = "sample" /\ fit_call.pc = "L33" /\ fit_call.replaced) =>
        ret.xp = fit_call.t

\* C7 (amended): fit has replaced both arrays when it returns: the AIF then
\* holds the samples and the timestamps of that call.
C7_FitReplacesBothOnReturn ==
    ret.op = "fit" => (self_AIF = ret.AIF /\ self_t = ret.t)

\* C7 witness: a fit returned, having replaced the population curve by two
\* samples on two timestamps.
C7_Witness ==
    /\ ret.op = "fit"
    /\ Len(ret.AIF) = 2
    /\ Len(ret.t) = 2
    /\ self_AIF # AIF_pop

\* C8 (as claimed): a default-constructed AIF holds 137 samples and 137
\* timestamps, timestamps[i] = 1.75 * i s (7 ticks), samples[0] = 0.
C8_Default137 ==
    ret.op = "init_default" =>
        /\ Len(self_AIF) = 137
        /\ Len(self_t) = 137
        /\ \A i \in 1..Len(self_t) : self_t[i] = 7 * (i - 1)
        /\ self_AIF[1] = 0

\* C8 (amended): a default-constructed AIF holds 146 samples and 146
\* timestamps, timestamps[i] = 1.75 * i s, samples[0] = 0.
C8_Default146 ==
    ret.op = "init_default" =>
        /\ Len(self_AIF) = 146
        /\ Len(self_t) = 146
        /\ \A i \in 1..Len(self_t) : self_t[i] = 7 * (i - 1)
        /\ self_AIF[1] = 0

\* C8 witness: the constructor returned a default AIF, longer than any
\* fitted one.
C8_Witness == ret.op = "init_default" /\ Len(self_AIF) > MaxLen

====
